---- MODULE Spec2Model ----
(***************************************************************************)
(* Model of analyses/cms-open-data-ttbar/ml_helpers.cpp:                   *)
(*   get_permutations, get_permutations_dict  (the permutation indexer)    *)
(*   inference                                (the inference scorer)       *)
(* Positions and indices are stored 0-based, as in the C++; a C++ array    *)
(* element a[i] is the TLA+ sequence element a[i+1].                       *)
(***************************************************************************)
EXTENDS Integers, Sequences, FiniteSets, TLC

\* longest label string handed to get_permutations
MaxLen == 6
\* largest MAX_N_JETS handed to get_permutations_dict
MaxJets == 5

VARIABLES
    pc,                \* position of the running call
    entry,             \* the entry point that was called
    jet_labels,        \* get_permutations: the (by-value) label string
    permutations,      \* get_permutations: std::map role key -> std::vector<int>
    count,             \* get_permutations: the w counter
    MAX_N_JETS,        \* get_permutations_dict: its argument
    N,                 \* get_permutations_dict: the loop variable
    permutations_dict, \* get_permutations_dict: the map filled by the loop
    dict_ret,          \* get_permutations_dict: the returned map
    outcome,           \* how the call ended: "running", "returned", "abort", "out_of_range"
    features,          \* inference: the feature columns
    forest,            \* inference: the ensemble
    check_features,    \* inference: the flag
    npermutations,     \* inference: features.at(0).size()
    nfeatures,         \* inference: features.size()
    res,               \* inference: the result vector
    input,             \* inference: the array handed to the ensemble
    i,                 \* inference: the loop variable of line 70
    calls,             \* the input arrays the ensemble was invoked on, in order
    scores             \* the raw scores the ensemble returned, in order

idxVars == <<entry, jet_labels, permutations, count, MAX_N_JETS, N,
             permutations_dict, dict_ret>>

infVars == <<features, forest, check_features, npermutations, nfeatures, res,
             input, i, calls, scores>>

vars == <<pc, outcome, idxVars, infVars>>

-----------------------------------------------------------------------------
(* characters and strings *)

Chars == {"h", "l", "o", "w"}

\* the character code that operator< of char compares
Ord(c) == CASE c = "h" -> 104 [] c = "l" -> 108 [] c = "o" -> 111
            [] c = "w" -> 119 [] OTHER -> 0

\* std::to_string(int) for a non-negative int
Digit(d) == CASE d = 0 -> "0" [] d = 1 -> "1" [] d = 2 -> "2" [] d = 3 -> "3"
              [] d = 4 -> "4" [] d = 5 -> "5" [] d = 6 -> "6" [] d = 7 -> "7"
              [] d = 8 -> "8" [] OTHER -> "9"

RECURSIVE to_string(_)
to_string(n) == IF n < 10 THEN Digit(n) ELSE to_string(n \div 10) \o Digit(n % 10)

\* std::string(n, c)
RECURSIVE Repeat(_, _)
Repeat(n, c) == IF n <= 0 THEN <<>> ELSE <<c>> \o Repeat(n - 1, c)

\* std::sort over the characters (ascending by operator<)
RECURSIVE InsertSorted(_, _)
InsertSorted(c, s) ==
    IF s = <<>> THEN <<c>>
    ELSE IF Ord(c) <= Ord(Head(s)) THEN <<c>> \o s
    ELSE <<Head(s)>> \o InsertSorted(c, Tail(s))

\* the string left as the caller passed it
SortSkipped(s) == s

RECURSIVE Sort(_)
Sort(s) == IF s = <<>> THEN <<>> ELSE InsertSorted(Head(s), Sort(Tail(s)))

Reverse(s) == [k \in 1..Len(s) |-> s[Len(s) + 1 - k]]

\* std::next_permutation: [seq |-> the rearranged range, more |-> its return value]
next_permutation(s) ==
    LET n == Len(s)
        asc == {k \in 1..(n - 1) : Ord(s[k]) < Ord(s[k + 1])}
    IN  IF asc = {} THEN [seq |-> Reverse(s), more |-> FALSE]
        ELSE LET p == CHOOSE k \in asc : \A m \in asc : m <= k
                 q == CHOOSE k \in (p + 1)..n :
                         /\ Ord(s[p]) < Ord(s[k])
                         /\ \A m \in (k + 1)..n : ~(Ord(s[p]) < Ord(s[m]))
                 sw == [s EXCEPT ![p] = s[q], ![q] = s[p]]
             IN  [seq |-> SubSeq(sw, 1, p) \o Reverse(SubSeq(sw, p + 1, n)),
                  more |-> TRUE]

-----------------------------------------------------------------------------
(* std::map<std::string, std::vector<int>> *)

EmptyMap == [k \in {} |-> <<>>]

\* m[k] of std::map: a missing key reads as a fresh empty vector
Lookup(m, k) == IF k \in DOMAIN m THEN m[k] ELSE <<>>

\* m[k].push_back(v)
PushBack(m, k, v) ==
    [x \in DOMAIN m \cup {k} |-> IF x = k THEN Append(Lookup(m, k), v) ELSE m[x]]

\* the for loop over idx of one do-iteration, from idx on:
\* [perms |-> the map, count |-> the w counter] after the loop
RECURSIVE ScanFrom(_, _, _, _)
ScanFrom(labels, idx, cnt, perms) ==
    IF ~(idx < Len(labels)) THEN [perms |-> perms, count |-> cnt]
    ELSE LET c == labels[idx + 1]
         IN  IF c = "o" THEN ScanFrom(labels, idx + 1, cnt, perms)
             ELSE IF c = "w"
                  THEN ScanFrom(labels, idx + 1, cnt + 1,
                                PushBack(perms, c \o to_string(cnt + 1), idx))
                  ELSE ScanFrom(labels, idx + 1, cnt, PushBack(perms, c, idx))

-----------------------------------------------------------------------------
(* get_permutations *)

\* the label strings a caller may pass
LabelStrings == UNION {[1..n -> Chars] : n \in 0..MaxLen}

\* entry and std::sort (lines 8-12)
GpSort ==
    /\ pc = "gp_sort"
    /\ jet_labels' = Sort(jet_labels)
    /\ permutations' = EmptyMap
    /\ count' = 0
    /\ pc' = "gp_loop"
    /\ UNCHANGED <<entry, MAX_N_JETS, N, permutations_dict, dict_ret, outcome, infVars>>

\* the iteration with the w counter carried into the next permutation
GpStepNoReset ==
    /\ pc = "gp_loop"
    /\ LET sc == ScanFrom(jet_labels, 0, count, permutations)
           np == next_permutation(jet_labels)
       IN  /\ permutations' = sc.perms
           /\ count' = sc.count
           /\ jet_labels' = np.seq
           /\ pc' = IF np.more THEN "gp_loop"
                    ELSE IF entry = "get_permutations_dict" THEN "dict_store" ELSE "done"
           /\ outcome' = IF np.more \/ entry = "get_permutations_dict" THEN outcome ELSE "returned"
    /\ UNCHANGED <<entry, MAX_N_JETS, N, permutations_dict, dict_ret, infVars>>

\* one iteration of the do-while: the scan, count = 0, next_permutation
GpStep ==
    /\ pc = "gp_loop"
    /\ LET sc == ScanFrom(jet_labels, 0, count, permutations)
           np == next_permutation(jet_labels)
       IN  /\ permutations' = sc.perms
           /\ count' = 0
           /\ jet_labels' = np.seq
           /\ pc' = IF np.more THEN "gp_loop"
                    ELSE IF entry = "get_permutations_dict" THEN "dict_store" ELSE "done"
           /\ outcome' = IF np.more \/ entry = "get_permutations_dict" THEN outcome ELSE "returned"
    /\ UNCHANGED <<entry, MAX_N_JETS, N, permutations_dict, dict_ret, infVars>>

-----------------------------------------------------------------------------
(* get_permutations_dict *)

\* the literal with its last h entry mistyped
HardcodedTableTypo ==
    << <<1, 1, 2, 2, 2, 2, 3, 3, 3, 3, 3, 3>>,
       <<0, 0, 0, 0, 1, 1, 0, 0, 1, 1, 2, 2>>,
       <<2, 3, 1, 3, 0, 3, 1, 2, 0, 2, 0, 0>>,
       <<3, 2, 3, 1, 3, 0, 2, 1, 2, 0, 1, 0>> >>

\* the literal of lines 34-37
HardcodedTable ==
    << <<1, 1, 2, 2, 2, 2, 3, 3, 3, 3, 3, 3>>,
       <<0, 0, 0, 0, 1, 1, 0, 0, 1, 1, 2, 2>>,
       <<2, 3, 1, 3, 0, 3, 1, 2, 0, 2, 0, 1>>,
       <<3, 2, 3, 1, 3, 0, 2, 1, 2, 0, 1, 0>> >>

base == <<"w", "w", "h", "l">>

\* the for statement's test and, when it holds, the call of line 30;
\* when it fails, lines 33-38
DictLoop ==
    /\ pc = "dict_loop"
    /\ IF N <= MAX_N_JETS
       THEN /\ jet_labels' = base \o Repeat(N - 4, "o")
            /\ pc' = "gp_sort"
            /\ UNCHANGED <<dict_ret, outcome>>
       ELSE /\ dict_ret' = [k \in {4} |-> HardcodedTable]
            /\ pc' = "done"
            /\ outcome' = "returned"
            /\ UNCHANGED jet_labels
    /\ UNCHANGED <<entry, permutations, count, MAX_N_JETS, N, permutations_dict, infVars>>

\* line 31 and ++N
DictStore ==
    /\ pc = "dict_store"
    /\ permutations_dict' =
          [k \in DOMAIN permutations_dict \cup {N} |->
              IF k = N
              THEN <<Lookup(permutations, "w1"), Lookup(permutations, "w2"),
                     Lookup(permutations, "h"), Lookup(permutations, "l")>>
              ELSE permutations_dict[k]]
    /\ N' = N + 1
    /\ pc' = "dict_loop"
    /\ UNCHANGED <<entry, jet_labels, permutations, count, MAX_N_JETS, dict_ret,
                   outcome, infVars>>

-----------------------------------------------------------------------------

-----------------------------------------------------------------------------
(* Binary floating point.  Natural numbers of any size are sequences of     *)
(* limbs, least significant first, without leading zero limbs; a floating   *)
(* point value is a record [m, e] standing for m * 2^e.                     *)

LimbBase == 2^14

RECURSIVE LNorm(_)
LNorm(a) == IF a # <<>> /\ a[Len(a)] = 0 THEN LNorm(SubSeq(a, 1, Len(a) - 1)) ELSE a

Limb(a, k) == IF k <= Len(a) THEN a[k] ELSE 0

RECURSIVE LFromInt(_)
LFromInt(n) == IF n = 0 THEN <<>> ELSE <<n % LimbBase>> \o LFromInt(n \div LimbBase)

\* only for values below 2^31
RECURSIVE LToInt(_)
LToInt(a) == IF a = <<>> THEN 0 ELSE a[1] + LimbBase * LToInt(Tail(a))

RECURSIVE LAddFrom(_, _, _, _)
LAddFrom(a, b, k, c) ==
    IF k > Len(a) /\ k > Len(b) THEN (IF c = 0 THEN <<>> ELSE <<c>>)
    ELSE LET s == Limb(a, k) + Limb(b, k) + c
         IN  <<s % LimbBase>> \o LAddFrom(a, b, k + 1, s \div LimbBase)

LAdd(a, b) == LAddFrom(a, b, 1, 0)

\* a - b for a >= b
RECURSIVE LSubFrom(_, _, _, _)
LSubFrom(a, b, k, br) ==
    IF k > Len(a) THEN <<>>
    ELSE LET d == Limb(a, k) - Limb(b, k) - br
         IN  IF d < 0 THEN <<d + LimbBase>> \o LSubFrom(a, b, k + 1, 1)
             ELSE <<d>> \o LSubFrom(a, b, k + 1, 0)

LSub(a, b) == LNorm(LSubFrom(a, b, 1, 0))

RECURSIVE LCmpFrom(_, _, _)
LCmpFrom(a, b, k) ==
    IF k = 0 THEN 0
    ELSE IF a[k] < b[k] THEN -1
    ELSE IF a[k] > b[k] THEN 1
    ELSE LCmpFrom(a, b, k - 1)

\* -1, 0, 1 as a < b, a = b, a > b
LCmp(a, b) ==
    IF Len(a) < Len(b) THEN -1
    ELSE IF Len(a) > Len(b) THEN 1
    ELSE LCmpFrom(a, b, Len(a))

\* a * d for one limb d
RECURSIVE LMul1From(_, _, _, _)
LMul1From(a, d, k, c) ==
    IF k > Len(a) THEN (IF c = 0 THEN <<>> ELSE <<c>>)
    ELSE LET s == a[k] * d + c
         IN  <<s % LimbBase>> \o LMul1From(a, d, k + 1, s \div LimbBase)

LMul1(a, d) == LNorm(LMul1From(a, d, 1, 0))

LShiftLimbs(a, n) == IF a = <<>> THEN <<>> ELSE [k \in 1..n |-> 0] \o a

RECURSIVE LMulFrom(_, _, _)
LMulFrom(a, b, k) ==
    IF k > Len(b) THEN <<>>
    ELSE LAdd(LShiftLimbs(LMul1(a, b[k]), k - 1), LMulFrom(a, b, k + 1))

LMul(a, b) == LNorm(LMulFrom(a, b, 1))

\* a * 2^k
LShl(a, k) == LShiftLimbs(LMul1(a, 2^(k % 14)), k \div 14)

\* floor(a / 2^k)
LShr(a, k) ==
    LET n == k \div 14
        r == k % 14
        d == IF n >= Len(a) THEN <<>> ELSE SubSeq(a, n + 1, Len(a))
    IN  LNorm([x \in 1..Len(d) |->
                 (d[x] \div 2^r) + (Limb(d, x + 1) % 2^r) * 2^(14 - r)])

RECURSIVE IntBitLen(_)
IntBitLen(n) == IF n = 0 THEN 0 ELSE 1 + IntBitLen(n \div 2)

LBitLen(a) == IF a = <<>> THEN 0 ELSE 14 * (Len(a) - 1) + IntBitLen(a[Len(a)])

LOdd(a) == a # <<>> /\ a[1] % 2 = 1

\* the value a * 2^ex (and a little more when sticky) rounded to nearest,
\* ties to even, to a format of p significant bits and least exponent emin
RoundTo(a, ex, sticky, p, emin) ==
    LET sh0 == LBitLen(a) - p
        sh == IF ex + sh0 < emin THEN emin - ex ELSE sh0
    IN  IF sh <= 0 THEN [m |-> a, e |-> ex]
        ELSE LET q == LShr(a, sh)
                 rem == LSub(a, LShl(q, sh))
                 c == LCmp(rem, LShl(<<1>>, sh - 1))
                 up == c > 0 \/ (c = 0 /\ (sticky \/ LOdd(q)))
             IN  [m |-> IF up THEN LAdd(q, <<1>>) ELSE q, e |-> ex + sh]

\* IEEE 754 binary32 and binary64
FloatBits == 24
FloatEmin == -149
FloatEmax == 128
DoubleBits == 53
DoubleEmin == -1074

\* the canonical binary32 record of a rounded value: m an integer below 2^24,
\* m >= 2^23 unless e = -149 (subnormal), zero as [m |-> 0, e |-> 0]
Canon32(r) ==
    LET len == LBitLen(r.m)
    IN  IF len = 0 THEN [m |-> 0, e |-> 0]
        ELSE IF len > FloatBits
             THEN [m |-> LToInt(LShr(r.m, len - FloatBits)), e |-> r.e + len - FloatBits]
        ELSE LET up == IF FloatBits - len < r.e - FloatEmin
                       THEN FloatBits - len ELSE r.e - FloatEmin
             IN  [m |-> LToInt(LShl(r.m, up)), e |-> r.e - up]

F32Zero == [m |-> 0, e |-> 0]
F32Half == [m |-> 2^23, e |-> -24]
F32One == [m |-> 2^23, e |-> -23]

\* a < b for canonical non-negative binary32 values
F32Less(a, b) ==
    IF b.m = 0 THEN FALSE
    ELSE IF a.m = 0 THEN TRUE
    ELSE a.e < b.e \/ (a.e = b.e /\ a.m < b.m)

\* e and 1/e to 56 significant bits
ExpWorkBits == 4 * 14
EulerHi == [m |-> <<15178, 8842, 1349, 11134>>, e |-> -54]
EulerInvHi == [m |-> <<14782, 1437, 11035, 12054>>, e |-> -57]

\* the product of two working-precision values, truncated to working precision
MulHi(a, b) ==
    LET prod == LMul(a.m, b.m)
        sh == LBitLen(prod) - ExpWorkBits
    IN  [m |-> LShr(prod, sh), e |-> a.e + b.e + sh]

\* b^n for n >= 0 by repeated squaring, to working precision
RECURSIVE PowHi(_, _)
PowHi(b, n) ==
    IF n = 0 THEN [m |-> LShl(<<1>>, ExpWorkBits - 1), e |-> 1 - ExpWorkBits]
    ELSE LET h == PowHi(b, n \div 2)
         IN  IF h.m = <<>> THEN h
             ELSE LET sq == MulHi(h, h)
                  IN  IF n % 2 = 0 \/ sq.m = <<>> THEN sq ELSE MulHi(sq, b)

\* e^x for an integer x, to working precision
ExpHi(x) == IF x >= 0 THEN PowHi(EulerHi, x) ELSE PowHi(EulerInvHi, -x)

\* std::exp(float) at an integer-valued argument: the binary32 nearest e^x,
\* +infinity on overflow; [inf, m, e] with m a limb number
ExpF(x) ==
    LET hi == ExpHi(x)
        r == RoundTo(hi.m, hi.e, x # 0, FloatBits, FloatEmin)
    IN  IF LBitLen(r.m) + r.e > FloatEmax
        THEN [inf |-> TRUE, m |-> <<>>, e |-> 0]
        ELSE [inf |-> FALSE, m |-> r.m, e |-> r.e]

\* one digit of the long division by d: st = [rem, quo] so far
DivStep(d, st) ==
    LET r2 == LAdd(st.rem, st.rem)
        q2 == LAdd(st.quo, st.quo)
    IN  IF LCmp(r2, d) >= 0
        THEN [rem |-> LSub(r2, d), quo |-> LAdd(q2, <<1>>)]
        ELSE [rem |-> r2, quo |-> q2]

\* k digits of the long division by d (once the remainder is zero, the
\* digits that follow are zero)
RECURSIVE DivSteps(_, _, _)
DivSteps(d, k, st) ==
    IF k = 0 THEN st
    ELSE IF k = 1 THEN DivStep(d, st)
    ELSE LET mid == DivSteps(d, k \div 2, st)
         IN  IF mid.rem = <<>>
             THEN [rem |-> <<>>, quo |-> LShl(mid.quo, k - k \div 2)]
             ELSE DivSteps(d, k - k \div 2, mid)

\* floor(2^k / d), and whether a remainder is left
DivPow2(d, k) ==
    LET st == IF d = <<1>> THEN DivSteps(d, k, [rem |-> <<>>, quo |-> <<1>>])
              ELSE DivSteps(d, k, [rem |-> <<1>>, quo |-> <<>>])
    IN  [q |-> st.quo, sticky |-> st.rem # <<>>]

\* 1./(1.+t) in double arithmetic, stored into a float, for t the float
\* that std::exp returned
LogisticOf(t) ==
    IF t.inf THEN F32Zero
    ELSE LET sum == IF t.e >= 0
                    THEN [m |-> LAdd(LShl(t.m, t.e), <<1>>), e |-> 0]
                    ELSE [m |-> LAdd(LShl(<<1>>, -t.e), t.m), e |-> t.e]
             u == RoundTo(sum.m, sum.e, FALSE, DoubleBits, DoubleEmin)
             k == LBitLen(u.m) + DoubleBits + 1
             d == DivPow2(u.m, k)
             v == RoundTo(d.q, -k - u.e, d.sticky, DoubleBits, DoubleEmin)
         IN  Canon32(RoundTo(v.m, v.e, FALSE, FloatBits, FloatEmin))

\* the transform with the sign of the exponent lost
LogisticSignSlip(score) == LogisticOf(ExpF(score))

\* line 75 for a float score of integer value: 1./(1.+std::exp(-score))
Logistic(score) == LogisticOf(ExpF(-score))

-----------------------------------------------------------------------------
(* inference *)

\* most feature columns, longest column, largest raw score of a tree leaf
MaxF == 2
MaxP == 2
MaxScore == 90

\* feature values (the floats 0.0 and 1.0)
FeatureValues == {0, 1}

Columns == UNION {[1..n -> FeatureValues] : n \in 0..MaxP}

Batches == UNION {[1..f -> Columns] : f \in 0..MaxF}

\* the ensembles: one tree, one cut on feature `cut` at 0, leaves left and
\* left + 1, for f feature names and left in lo..hi-1
Forests(f, lo, hi) ==
    {[cut |-> c, left |-> l, right |-> l + 1] :
        c \in 0..(IF f = 0 THEN 0 ELSE f - 1), l \in lo..(hi - 1)}

\* fastforest::FastForest::operator()(array, baseline): the sum of the tree
\* responses and the baseline
ForestEval(f, array, baseline) ==
    baseline + (IF array[f.cut + 1] <= 0 THEN f.left ELSE f.right)

\* line 75 over the raw scores an ensemble of Forests can return
LogisticTable == [s \in (-MaxScore)..MaxScore |-> Logistic(s)]

\* the size read from the last column
LastColumnSize(feats) == Len(feats[Len(feats)])

\* features.at(0).size() of line 59
FirstColumnSize(feats) == Len(feats[1])

\* RVec::at(idx) finds idx inside the column (it throws std::out_of_range
\* otherwise)
AtInRange(col, idx) == idx < Len(col)

\* the gather with the column index used for every slot
GatherFirstColumn(feats, idx) == [j \in 1..Len(feats) |-> feats[1][idx + 1]]

\* lines 71-73: input[j] = features.at(j).at(i) for every j
Gather(feats, idx) == [j \in 1..Len(feats) |-> feats[j][idx + 1]]

\* lines 59-62: features.at(0) throws on an empty batch
InfEntry ==
    /\ pc = "inf_entry"
    /\ IF Len(features) = 0
       THEN /\ outcome' = "out_of_range"
            /\ pc' = "done"
            /\ UNCHANGED <<npermutations, nfeatures, res>>
       ELSE /\ npermutations' = FirstColumnSize(features)
            /\ nfeatures' = Len(features)
            /\ res' = [k \in 1..FirstColumnSize(features) |-> F32Zero]
            /\ pc' = "inf_check"
            /\ UNCHANGED outcome
    /\ UNCHANGED <<idxVars, features, forest, check_features, input, i, calls, scores>>

\* lines 64-68 when an assert fails: the process aborts
InfAssertFail ==
    /\ pc = "inf_check"
    /\ check_features
    /\ \E j \in 1..nfeatures : Len(features[j]) # npermutations
    /\ outcome' = "abort"
    /\ pc' = "done"
    /\ UNCHANGED <<idxVars, infVars>>

\* lines 64-68 when nothing stops the call: the flag is off, or every assert
\* holds, or the translation unit was compiled with NDEBUG and assert expands
\* to nothing
InfCheckPass ==
    /\ pc = "inf_check"
    /\ \E ndebug \in BOOLEAN :
          (check_features /\ ~ndebug)
              => \A j \in 1..nfeatures : Len(features[j]) = npermutations
    /\ i' = 0
    /\ pc' = "inf_loop"
    /\ UNCHANGED <<idxVars, outcome, features, forest, check_features,
                   npermutations, nfeatures, res, input, calls, scores>>

\* lines 70-76, one iteration in which every at(i) succeeds
InfIter ==
    /\ pc = "inf_loop"
    /\ i < npermutations
    /\ \A j \in 1..nfeatures : AtInRange(features[j], i)
    /\ LET in == Gather(features, i)
           score == ForestEval(forest, in, 0)
       IN  /\ input' = in
           /\ calls' = Append(calls, in)
           /\ scores' = Append(scores, score)
           /\ res' = [res EXCEPT ![i + 1] = LogisticTable[score]]
    /\ i' = i + 1
    /\ UNCHANGED <<pc, idxVars, outcome, features, forest, check_features,
                   npermutations, nfeatures>>

\* lines 70-73, the iteration in which an at(i) throws std::out_of_range
InfThrow ==
    /\ pc = "inf_loop"
    /\ i < npermutations
    /\ \E j \in 1..nfeatures : ~AtInRange(features[j], i)
    /\ outcome' = "out_of_range"
    /\ pc' = "done"
    /\ UNCHANGED <<idxVars, infVars>>

\* line 78
InfReturn ==
    /\ pc = "inf_loop"
    /\ ~(i < npermutations)
    /\ outcome' = "returned"
    /\ pc' = "done"
    /\ UNCHANGED <<idxVars, infVars>>

\* the scorer's variables while the indexer runs
InfIdle ==
    /\ features = <<>>
    /\ forest = [cut |-> 0, left |-> 0, right |-> 0]
    /\ check_features = FALSE
    /\ npermutations = 0
    /\ nfeatures = 0
    /\ res = <<>>
    /\ input = <<>>
    /\ i = 0
    /\ calls = <<>>
    /\ scores = <<>>

InitGp ==
    /\ pc = "gp_sort"
    /\ outcome = "running"
    /\ InfIdle
    /\ entry = "get_permutations"
    /\ jet_labels \in LabelStrings
    /\ permutations = EmptyMap
    /\ count = 0
    /\ MAX_N_JETS = 0
    /\ N = 4
    /\ permutations_dict = EmptyMap
    /\ dict_ret = EmptyMap

InitDict ==
    /\ pc = "dict_loop"
    /\ outcome = "running"
    /\ InfIdle
    /\ entry = "get_permutations_dict"
    /\ jet_labels = <<>>
    /\ permutations = EmptyMap
    /\ count = 0
    /\ MAX_N_JETS \in 0..MaxJets
    /\ N = 4
    /\ permutations_dict = EmptyMap
    /\ dict_ret = EmptyMap

Init == InitGp \/ InitDict

Next == GpSort \/ GpStep \/ DictLoop \/ DictStore

\* the indexer's variables while the scorer runs
IdxIdle ==
    /\ entry = "inference"
    /\ jet_labels = <<>>
    /\ permutations = EmptyMap
    /\ count = 0
    /\ MAX_N_JETS = 0
    /\ N = 4
    /\ permutations_dict = EmptyMap
    /\ dict_ret = EmptyMap

\* a call of inference: any batch with an ensemble of small leaves, or the
\* one-column batch <<0, 1>> with an ensemble of any leaves
InitInference ==
    /\ pc = "inf_entry"
    /\ outcome = "running"
    /\ IdxIdle
    /\ \/ /\ features \in Batches
          /\ forest \in Forests(Len(features), -1, 1)
       \/ /\ features = << <<0, 1>> >>
          /\ forest \in Forests(1, -MaxScore, MaxScore)
    /\ check_features \in BOOLEAN
    /\ npermutations = 0
    /\ nfeatures = 0
    /\ res = <<>>
    /\ input = <<>>
    /\ i = 0
    /\ calls = <<>>
    /\ scores = <<>>

NextInference ==
    InfEntry \/ InfAssertFail \/ InfCheckPass \/ InfIter \/ InfThrow \/ InfReturn

SpecInference == InitInference /\ [][NextInference]_vars

Spec == Init /\ [][Next]_vars

-----------------------------------------------------------------------------
(* Properties of the permutation indexer *)

Count(s, c) == Cardinality({k \in 1..Len(s) : s[k] = c})

\* the label invariant: two w, one h, one l, the rest o
ValidLabels(s) ==
    /\ Count(s, "w") = 2
    /\ Count(s, "h") = 1
    /\ Count(s, "l") = 1
    /\ Count(s, "o") = Len(s) - 4

RoleKeys == {"w1", "w2", "h", "l"}

RECURSIVE Factorial(_)
Factorial(n) == IF n <= 1 THEN 1 ELSE n * Factorial(n - 1)

\* get_permutations has returned to its caller (jet_labels then holds the
\* sorted input again: next_permutation wraps around before returning false)
GpDone == pc = "done" /\ entry = "get_permutations"

\* get_permutations_dict has returned
DictDone == pc = "done" /\ entry = "get_permutations_dict"

\* all role lists of the returned map have the length len
ListsOfLength(len) ==
    /\ DOMAIN permutations = RoleKeys
    /\ \A r \in RoleKeys : Len(permutations[r]) = len

\* C1 as stated: for a valid label string of N in {4,5,6} slots the returned
\* map holds exactly the lists w1, w2, h, l, each of length N!/2.
C1_LengthHalfFactorial ==
    (GpDone /\ ValidLabels(jet_labels) /\ Len(jet_labels) \in 4..6)
        => ListsOfLength(Factorial(Len(jet_labels)) \div 2)

\* C1 amended: for a valid label string of N >= 4 slots the returned map holds
\* exactly the lists w1, w2, h, l, each of length N!/(2 (N-4)!): the N-4 'o'
\* characters are indistinguishable too (12, 60, 180 for N = 4, 5, 6).
C1_LengthDistinctArrangements ==
    (GpDone /\ ValidLabels(jet_labels))
        => /\ outcome = "returned"
           /\ ListsOfLength(Factorial(Len(jet_labels))
                              \div (2 * Factorial(Len(jet_labels) - 4)))

C1_Witness ==
    /\ GpDone
    /\ ValidLabels(jet_labels)
    /\ Len(jet_labels) = 6
    /\ ListsOfLength(180)

\* the arrangement entry k of the role lists describes
ArrOf(k) ==
    [p \in 1..Len(jet_labels) |->
        IF p - 1 = permutations["w1"][k] \/ p - 1 = permutations["w2"][k] THEN "w"
        ELSE IF p - 1 = permutations["h"][k] THEN "h"
        ELSE IF p - 1 = permutations["l"][k] THEN "l"
        ELSE "o"]

\* every arrangement of the characters of s
Arrangements(s) ==
    {a \in [1..Len(s) -> Chars] : \A c \in Chars : Count(a, c) = Count(s, c)}

LexLess(a, b) ==
    \E k \in 1..Len(a) :
        /\ Ord(a[k]) < Ord(b[k])
        /\ \A m \in 1..(k - 1) : a[m] = b[m]

\* C2: for a valid label string, entry k of the role lists is the k-th distinct
\* arrangement of the labels in ascending lexicographic order, the first being
\* the sorted string: every arrangement appears exactly once, in strictly
\* increasing order, h[k], l[k] are the positions of h and l in it and
\* w1[k] < w2[k] are the positions of its first and second w.
C2_LexicographicOrder ==
    (GpDone /\ ValidLabels(jet_labels)) =>
        /\ DOMAIN permutations = RoleKeys
        /\ LET P == Len(permutations["h"])
               n == Len(jet_labels)
           IN  /\ \A r \in RoleKeys : Len(permutations[r]) = P
               /\ \A k \in 1..P :
                     /\ permutations["w1"][k] < permutations["w2"][k]
                     /\ LET pos == {permutations[r][k] : r \in RoleKeys}
                        IN  pos \subseteq 0..(n - 1) /\ Cardinality(pos) = 4
               /\ {ArrOf(k) : k \in 1..P} = Arrangements(jet_labels)
               /\ \A k \in 1..(P - 1) : LexLess(ArrOf(k), ArrOf(k + 1))
               /\ P >= 1
               /\ \A m \in 1..(n - 1) : Ord(ArrOf(1)[m]) <= Ord(ArrOf(1)[m + 1])

\* "hloww" is followed by "hlwow": first w in slot 2, second in slot 4
C2_Witness ==
    /\ GpDone
    /\ ValidLabels(jet_labels)
    /\ Len(jet_labels) = 5
    /\ Len(permutations["w1"]) = 60
    /\ permutations["w1"][2] = 2
    /\ permutations["w2"][2] = 4
    /\ permutations["h"][2] = 0
    /\ permutations["l"][2] = 1

\* C3 as stated: for maxN >= 4 the returned table has an entry under every key
\* 4..maxN, and for N > 4 it is the four lists get_permutations computed for
\* "wwhl" followed by N-4 'o'.
C3_EntryForEveryN ==
    (DictDone /\ MAX_N_JETS >= 4) =>
        \A n \in 4..MAX_N_JETS :
            /\ n \in DOMAIN dict_ret
            /\ (n > 4 => dict_ret[n] = permutations_dict[n])

\* C4 as stated: the N=4 entry of the returned table is identical to the role
\* lists get_permutations computes for "wwhl" (w1, w2, h, l, index by index).
C4_LiteralEqualsComputed ==
    (DictDone /\ 4 \in DOMAIN permutations_dict) =>
        /\ 4 \in DOMAIN dict_ret
        /\ dict_ret[4] = permutations_dict[4]

\* C5 as stated: a malformed label string is rejected with InvalidInput and no
\* role table is returned for it; a returned table never has missing lists,
\* lists of unequal length or keys other than w1, w2, h, l.
C5_MalformedRejected ==
    /\ (GpDone /\ ~ValidLabels(jet_labels))
          => (outcome = "InvalidInput" /\ permutations = EmptyMap)
    /\ (GpDone /\ outcome = "returned")
          => /\ DOMAIN permutations = RoleKeys
             /\ \A r \in RoleKeys : Len(permutations[r]) = Len(permutations["h"])

\* the assignment column k of a four-row table makes: the unordered pair of
\* w slots, the h slot, the l slot
Assignment(t, k) == <<{t[1][k], t[2][k]}, t[3][k], t[4][k]>>

\* C10: the returned N=4 table has four lists of length 12; every column holds
\* four pairwise distinct slots of 0..3; the 12 columns are pairwise distinct;
\* and its assignments are those of the table computed for "wwhl".
C10_LiteralIsValidTable ==
    DictDone =>
        /\ 4 \in DOMAIN dict_ret
        /\ LET t == dict_ret[4]
           IN  /\ Len(t) = 4
               /\ \A r \in 1..4 : Len(t[r]) = 12
               /\ \A k \in 1..12 :
                     LET col == {t[r][k] : r \in 1..4}
                     IN  col \subseteq 0..3 /\ Cardinality(col) = 4
               /\ \A k, m \in 1..12 :
                     k # m => \E r \in 1..4 : t[r][k] # t[r][m]
               /\ 4 \in DOMAIN permutations_dict =>
                     LET c == permutations_dict[4]
                     IN  {Assignment(t, k) : k \in 1..12}
                            = {Assignment(c, k) : k \in 1..Len(c[1])}

\* the literal's first column (w 1, w 0) against the computed one (w1 2, w2 3)
C10_Witness ==
    /\ DictDone
    /\ 4 \in DOMAIN permutations_dict
    /\ dict_ret[4][1][1] = 1
    /\ dict_ret[4][2][1] = 0
    /\ permutations_dict[4][1][1] = 2
    /\ permutations_dict[4][2][1] = 3
    /\ Len(permutations_dict[4][1]) = 12

-----------------------------------------------------------------------------
(* Properties of the inference scorer *)

\* inference has ended
InfDone == pc = "done" /\ entry = "inference"

\* some column's length differs from the first column's
Unequal(feats) == \E j \in 1..Len(feats) : Len(feats[j]) # Len(feats[1])

\* C6 as stated: with check_features set and a column whose length differs
\* from the first column's, the call fails before any score is computed and
\* returns no score sequence.
C6_MismatchFailsFast ==
    (InfDone /\ check_features /\ Len(features) >= 1 /\ Unequal(features))
        => (outcome = "abort" /\ calls = <<>> /\ scores = <<>>)

\* C7: for F >= 1 columns of one length P the call returns P values; the
\* ensemble is invoked once per index k, in order, on the vector
\* (features[0][k], ..., features[F-1][k]) with baseline 0, and res[k] is the
\* logistic transform of the score it returned.
C7_OneScorePerPermutation ==
    (InfDone /\ Len(features) >= 1 /\ ~Unequal(features)) =>
        LET P == Len(features[1])
            F == Len(features)
        IN  /\ outcome = "returned"
            /\ Len(res) = P
            /\ Len(calls) = P
            /\ Len(scores) = P
            /\ \A k \in 1..P :
                  /\ calls[k] = [j \in 1..F |-> features[j][k]]
                  /\ scores[k] = ForestEval(forest, calls[k], 0)
                  /\ res[k] = Logistic(scores[k])

\* two columns that differ, the tree cutting on the second
C7_Witness ==
    /\ InfDone
    /\ outcome = "returned"
    /\ features = << <<0, 0>>, <<0, 1>> >>
    /\ forest = [cut |-> 1, left |-> 0, right |-> 1]
    /\ scores = <<0, 1>>
    /\ res[1] = F32Half
    /\ F32Less(F32Half, res[2])

\* the scores computed so far and their results
Scored == 1..Len(scores)

\* the result never decreases as the raw score grows, and is 0.5 at 0
MonotoneAndCentred ==
    /\ \A k, n \in Scored : scores[k] <= scores[n] => ~F32Less(res[n], res[k])
    /\ \A k \in Scored : scores[k] = 0 => res[k] = F32Half

\* C8 as stated: every returned value is strictly between 0 and 1, never
\* decreases as the raw score grows, and is exactly 0.5 for a raw score of 0.
C8_StrictlyInsideUnitInterval ==
    /\ \A k \in Scored : F32Less(F32Zero, res[k]) /\ F32Less(res[k], F32One)
    /\ MonotoneAndCentred

\* C8 amended: every returned value is a float in the closed interval [0, 1],
\* never decreases as the raw score grows and is exactly 0.5 for a raw score
\* of 0; it is strictly inside (0, 1) for raw scores from -88 to 17, exactly
\* 1 for raw scores of 18 and more (1 - e^-18 rounds to 1 in binary32) and
\* exactly 0 for raw scores of -89 and less (std::exp overflows to infinity).
C8_ClosedUnitInterval ==
    /\ \A k \in Scored :
          /\ res[k].m \in 0..(2^FloatBits - 1)
          /\ ~F32Less(F32One, res[k])
          /\ scores[k] \in -88..17
                => (F32Less(F32Zero, res[k]) /\ F32Less(res[k], F32One))
          /\ scores[k] >= 18 => res[k] = F32One
          /\ scores[k] <= -89 => res[k] = F32Zero
    /\ MonotoneAndCentred

C8_Witness ==
    /\ InfDone
    /\ outcome = "returned"
    /\ scores = <<17, 18>>
    /\ F32Less(res[1], F32One)
    /\ res[2] = F32One

\* C9 as stated: with check_features off and columns of unequal length the
\* mismatch goes undetected and no error is raised.
C9_MismatchUndetected ==
    (InfDone /\ ~check_features /\ Len(features) >= 1 /\ Unequal(features))
        => outcome = "returned"

\* the length of the shortest column
MinColumnSize(feats) ==
    CHOOSE n \in {Len(feats[j]) : j \in 1..Len(feats)} :
        \A j \in 1..Len(feats) : n <= Len(feats[j])

\* C9 amended: with check_features off and columns of unequal length no
\* length check is made up front; if some column is shorter than the first,
\* the bounds-checked access at(i) throws std::out_of_range at i = the
\* shortest column's length, after that many scores were computed, and no
\* score sequence is returned; otherwise no error is raised, the surplus
\* elements are ignored and one score per element of the first column is
\* returned.
C9_ShortColumnThrows ==
    (InfDone /\ ~check_features /\ Len(features) >= 1 /\ Unequal(features)) =>
        IF \E j \in 1..Len(features) : Len(features[j]) < Len(features[1])
        THEN /\ outcome = "out_of_range"
             /\ i = MinColumnSize(features)
             /\ Len(calls) = MinColumnSize(features)
        ELSE /\ outcome = "returned"
             /\ Len(res) = Len(features[1])
             /\ Len(calls) = Len(features[1])

C9_Witness ==
    /\ InfDone
    /\ ~check_features
    /\ features = << <<0, 1>>, <<1>> >>
    /\ outcome = "out_of_range"
    /\ i = 1
    /\ Len(calls) = 1

====
